---- MODULE Spec2Model ----
(***************************************************************************)
(* kafka-topicctl (src/kafka-client/main.go): export of a cluster's topics *)
(* to a JSON snapshot and import of a snapshot into a cluster.             *)
(*                                                                         *)
(* A topic name is a Go string, modelled as the sequence of its bytes      *)
(* (95 is '_', 97 is 'a').  A *string is a sequence of length at most one: *)
(* <<>> is nil, <<s>> points to s.  A Go map is a TLA+ function; a map     *)
(* field that may be nil carries the flag isnil.                           *)
(***************************************************************************)
EXTENDS Integers, Sequences, FiniteSets, TLC

VARIABLES
    runs,      \* number of processes started so far
    cluster,   \* broker address -> (topic name -> sarama.TopicDetail)
    file,      \* the snapshot file on disk (topics.json)
    pc,        \* position of the running process; "idle": none is running
    argv,      \* command line of the current (or last) process
    session,   \* the ClusterAdmin of the process: "none", "open", "closed"
    touched,   \* the process has read or written the snapshot file
    listed,    \* number of ListTopics requests issued by the process
    ranged,    \* exportTopics: the order in which range visited the map
    result,    \* exportTopics: the local slice result (of the last export)
    doc,       \* importTopics: file.Topics after json.Unmarshal
    decoded,   \* importTopics: json.Unmarshal has returned without error
    idx,       \* importTopics: index of the next element of file.Topics
    calls,     \* CreateTopic requests issued by the process, with results
    out,       \* lines the process printed
    exit,      \* exit status of the last finished process
    start,     \* the clusters as they were when the process started
    prev       \* summary of the process that ran before this one

vars == <<runs, cluster, file, pc, argv, session, touched, listed, ranged, result,
          doc, decoded, idx, calls, out, exit, start, prev>>

----------------------------------------------------------------------------
(* Bounds of the model *)

\* largest number of topics on the source cluster in the initial state
MaxTopics == 3
\* largest number of topics in a hand-written snapshot file
MaxDoc == 2
\* number of processes run one after the other
MaxRuns == 2

----------------------------------------------------------------------------
(* Values *)

Brokers == {"k1", "k2"}

\* "_", "__", "__a", "_a", "a", "a__"
Names == {<<95>>, <<95, 95>>, <<95, 95, 97>>, <<95, 97>>, <<97>>, <<97, 95, 95>>}

EmptyMap == [k \in {} |-> ""]

NoTopics == [n \in {} |-> 0]

\* Go's < on strings: byte-wise lexicographic order
RECURSIVE StrLess(_, _)
StrLess(a, b) ==
    IF a = <<>> THEN b # <<>>
    ELSE IF b = <<>> THEN FALSE
    ELSE IF a[1] # b[1] THEN a[1] < b[1]
    ELSE StrLess(Tail(a), Tail(b))

\* all orders in which a range over a map with key set S can visit it
Orders(S) ==
    {s \in [1..Cardinality(S) -> S] : \A i, j \in DOMAIN s : i # j => s[i] # s[j]}

----------------------------------------------------------------------------
(* exportTopics *)

\* IsInternal with the length guard off by one: "__" itself is kept
IsInternalLonger(name) == Len(name) > 2 /\ SubSeq(name, 1, 2) = <<95, 95>>

\* line 52: name[:2] == "__", guarded by len(name) >= 2
IsInternal(name) == Len(name) >= 2 /\ SubSeq(name, 1, 2) = <<95, 95>>

\* line 52: the topics the range skips
Dropped(excludeInternal, name) == excludeInternal /\ IsInternal(name)

\* lines 57-64: map[string]*string -> map[string]string, nil becomes ""
ConvertConfigs(entries) ==
    [isnil |-> FALSE,
     m |-> [k \in DOMAIN entries |-> IF entries[k] # <<>> THEN entries[k][1] ELSE ""]]

\* lines 66-71
MakeTopic(name, detail) ==
    [Name |-> name,
     Partitions |-> detail.NumPartitions,
     ReplicationFactor |-> detail.ReplicationFactor,
     Configs |-> ConvertConfigs(detail.ConfigEntries)]

\* lines 50-72: result after the range has visited order[1..i]
RECURSIVE RangeTopics(_, _, _, _)
RangeTopics(topics, order, excludeInternal, i) ==
    IF i = 0 THEN <<>>
    ELSE LET r == RangeTopics(topics, order, excludeInternal, i - 1)
             name == order[i]
         IN  IF Dropped(excludeInternal, name) THEN r
             ELSE Append(r, MakeTopic(name, topics[name]))

\* line 75: the less function given to sort.Slice
NameLess(x, y) == StrLess(x.Name, y.Name)

RECURSIVE Insert(_, _)
Insert(t, s) ==
    IF s = <<>> THEN <<t>>
    ELSE IF NameLess(t, s[1]) THEN <<t>> \o s
    ELSE <<s[1]>> \o Insert(t, Tail(s))

RECURSIVE InsertAll(_, _)
InsertAll(s, i) == IF i = 0 THEN <<>> ELSE Insert(s[i], InsertAll(s, i - 1))

\* SortSlice with the sort left out: result stays in range order
SortSliceOmitted(s) == s

\* lines 74-76: sort.Slice(result, less)
SortSlice(s) == InsertAll(s, Len(s))

----------------------------------------------------------------------------
(* encoding/json on ExportFile and Topic *)

\* line 19: `json:"configs,omitempty"` leaves out a map of length 0
MarshalTopic(t) ==
    [name |-> t.Name,
     partitions |-> t.Partitions,
     replication_factor |-> t.ReplicationFactor,
     configs |-> IF t.Configs.isnil \/ DOMAIN t.Configs.m = {}
                 THEN [present |-> FALSE, m |-> EmptyMap]
                 ELSE [present |-> TRUE, m |-> t.Configs.m]]

\* lines 78-84
Marshal(topics) ==
    [kind |-> "json",
     kafka_version |-> "2.4.0",
     topics |-> [i \in 1..Len(topics) |-> MarshalTopic(topics[i])]]

\* an absent "configs" leaves the field the nil map
UnmarshalTopic(j) ==
    [Name |-> j.name,
     Partitions |-> j.partitions,
     ReplicationFactor |-> j.replication_factor,
     Configs |-> IF j.configs.present
                 THEN [isnil |-> FALSE, m |-> j.configs.m]
                 ELSE [isnil |-> TRUE, m |-> EmptyMap]]

\* line 96: os.ReadFile returns an error
ReadFails(f) == f.kind \in {"missing", "unreadable"}

\* UnmarshalFails with the error of json.Unmarshal ignored
UnmarshalErrorIgnored(f) == FALSE

\* line 102: json.Unmarshal returns an error (syntax error or a value of the
\* wrong JSON type); it accepts every well-typed document, whatever its numbers
UnmarshalFails(f) == f.kind = "malformed"

\* lines 101-102
Unmarshal(f) == [i \in 1..Len(f.topics) |-> UnmarshalTopic(f.topics[i])]

----------------------------------------------------------------------------
(* importTopics *)

\* lines 108-112: map[string]string -> map[string]*string
ConvertBack(configs) ==
    [k \in (IF configs.isnil THEN {} ELSE DOMAIN configs.m) |-> <<configs.m[k]>>]

\* lines 114-118
MakeDetail(t) ==
    [NumPartitions |-> t.Partitions,
     ReplicationFactor |-> t.ReplicationFactor,
     ConfigEntries |-> ConvertBack(t.Configs)]

\* line 120: what the cluster can answer to CreateTopic(name, detail, false):
\* "ok" (created), "exists" (ErrTopicAlreadyExists) or "other" (any other error)
CreateResults(topics, name, detail) ==
    IF name \in DOMAIN topics THEN {"exists", "other"}
    ELSE IF detail.NumPartitions < 1 \/ detail.ReplicationFactor < 1 THEN {"other"}
    ELSE {"ok", "other"}

\* SkipsError with the test of ifNotExists lost: every error is skipped
SkipsEveryError(ifNotExists, res) == TRUE

\* lines 121-125: the errors of CreateTopic after which the loop continues
SkipsError(ifNotExists, res) == ifNotExists

----------------------------------------------------------------------------
(* Initial states *)

ConfigKey == "retention.ms"

\* TopicDetails a cluster reports: no config entry, a config entry with no
\* value, a config entry with a value
PlainDetail ==
    [NumPartitions |-> 1, ReplicationFactor |-> 1, ConfigEntries |-> EmptyMap]

NullConfigDetail ==
    [NumPartitions |-> 2, ReplicationFactor |-> 1,
     ConfigEntries |-> [k \in {ConfigKey} |-> <<>>]]

ValueConfigDetail ==
    [NumPartitions |-> 1, ReplicationFactor |-> 2,
     ConfigEntries |-> [k \in {ConfigKey} |-> <<"v">>]]

NativeDetails == {PlainDetail, NullConfigDetail, ValueConfigDetail}

\* the detail of each topic of a large source cluster
DetailOf(name) ==
    IF Len(name) = 1 THEN PlainDetail
    ELSE IF name[Len(name)] = 97 THEN NullConfigDetail
    ELSE ValueConfigDetail

\* topic entries of a snapshot file somebody wrote or edited by hand; one has
\* a partition count the document format does not allow
JsonTopics ==
    {[name |-> <<97>>, partitions |-> 3, replication_factor |-> 1,
      configs |-> [present |-> FALSE, m |-> EmptyMap]],
     [name |-> <<95, 97>>, partitions |-> 3, replication_factor |-> 1,
      configs |-> [present |-> TRUE, m |-> [k \in {ConfigKey} |-> "w"]]],
     [name |-> <<95, 97>>, partitions |-> 0, replication_factor |-> 1,
      configs |-> [present |-> TRUE, m |-> EmptyMap]]}

JsonFiles ==
    {[kind |-> "json", kafka_version |-> "2.4.0", topics |-> ts] :
        ts \in UNION {[1..n -> JsonTopics] : n \in 0..MaxDoc}}

NoFile(kind) == [kind |-> kind, kafka_version |-> "", topics |-> <<>>]

BadFiles == {NoFile("missing"), NoFile("unreadable"), NoFile("malformed")}

\* source clusters of up to MaxTopics topics
LargeClusters ==
    {[n \in S |-> DetailOf(n)] : S \in {T \in SUBSET Names : Cardinality(T) <= MaxTopics}}

\* the second cluster: empty, or holding the topic "__a"
OtherClusters == {NoTopics, [n \in {<<95, 95, 97>>} |-> PlainDetail]}

\* target clusters holding at most one of the topics the files name
SmallClusters ==
    {NoTopics, [n \in {<<97>>} |-> PlainDetail], [n \in {<<95, 97>>} |-> ValueConfigDetail]}

Init ==
    /\ \/ /\ cluster \in {[b \in Brokers |-> IF b = "k1" THEN c ELSE d] :
                            c \in LargeClusters, d \in OtherClusters}
          /\ file = NoFile("missing")
       \/ /\ cluster \in {[b \in Brokers |-> IF b = "k1" THEN c ELSE NoTopics] :
                            c \in SmallClusters}
          /\ file \in JsonFiles \cup BadFiles
    /\ pc = "idle"
    /\ runs = 0
    /\ argv = [cmd |-> "none", broker |-> "", flag |-> TRUE]
    /\ session = "none"
    /\ touched = FALSE
    /\ listed = 0
    /\ ranged = <<>>
    /\ result = <<>>
    /\ doc = <<>>
    /\ decoded = FALSE
    /\ idx = 1
    /\ calls = <<>>
    /\ out = <<>>
    /\ exit = 0
    /\ start = cluster
    /\ prev = [cmd |-> "none", broker |-> "", flag |-> TRUE, exit |-> 0,
               decoded |-> FALSE]

----------------------------------------------------------------------------
(* The process *)

Line(kind, name) == [kind |-> kind, name |-> name]

\* os.Args[1:] as main reads it: the command, --bootstrap, and the boolean
\* flag of the command (--exclude-internal or --if-not-exists)
Argvs ==
    {[cmd |-> c, broker |-> b, flag |-> f] :
        c \in {"export", "import"}, b \in Brokers \cup {""}, f \in BOOLEAN}
    \cup {[cmd |-> c, broker |-> "", flag |-> TRUE] : c \in {"", "delete"}}

\* the process ends with the given status, after printing the given lines
Finish(status, lines) ==
    /\ pc' = "idle"
    /\ exit' = status
    /\ out' = out \o lines
    /\ session' = IF session = "open" THEN "closed" ELSE session

\* lines 159-161, 177-179: panic(err) ends the process with status 2
Panic == Finish(2, <<Line("panic", <<>>)>>)

\* lines 136-186: main up to the call of exportTopics or importTopics
Main(a) ==
    /\ pc = "idle"
    /\ runs < MaxRuns
    /\ runs' = runs + 1
    /\ argv' = a
    /\ prev' = [cmd |-> argv.cmd, broker |-> argv.broker, flag |-> argv.flag,
                exit |-> exit, decoded |-> decoded]
    /\ start' = cluster
    /\ touched' = FALSE
    /\ listed' = 0
    /\ ranged' = <<>>
    /\ doc' = <<>>
    /\ decoded' = FALSE
    /\ idx' = 1
    /\ calls' = <<>>
    /\ session' = "none"
    /\ UNCHANGED <<cluster, file, result>>
    /\ \/ /\ a.cmd = ""
          /\ pc' = "idle" /\ exit' = 1 /\ out' = <<Line("usage", <<>>)>>
       \/ /\ a.cmd \in {"export", "import"}
          /\ a.broker = ""
          /\ pc' = "idle" /\ exit' = 1 /\ out' = <<Line("flags", <<>>)>>
       \/ /\ a.cmd \in {"export", "import"}
          /\ a.broker # ""
          /\ pc' = a.cmd \o "_open" /\ exit' = exit /\ out' = <<>>
       \/ /\ a.cmd \notin {"", "export", "import"}
          /\ pc' = "idle" /\ exit' = 0 /\ out' = <<Line("help", <<>>)>>

\* lines 39-43
ExportOpen ==
    /\ pc = "export_open"
    /\ \/ /\ session' = "open"
          /\ pc' = "export_list"
          /\ UNCHANGED <<exit, out>>
       \/ Panic
    /\ UNCHANGED <<runs, cluster, file, argv, touched, listed, ranged, result, doc,
                   decoded, idx, calls, start, prev>>

\* lines 45-76
ExportList ==
    /\ pc = "export_list"
    /\ listed' = listed + 1
    /\ \/ /\ \E order \in Orders(DOMAIN cluster[argv.broker]) :
                /\ ranged' = order
                /\ result' = SortSlice(RangeTopics(cluster[argv.broker], order,
                                                   argv.flag, Len(order)))
          /\ pc' = "export_write"
          /\ UNCHANGED <<exit, out, session>>
       \/ /\ Panic
          /\ UNCHANGED <<ranged, result>>
    /\ UNCHANGED <<runs, cluster, file, argv, touched, doc, decoded, idx, calls,
                   start, prev>>

\* lines 78-85, 163: a failed os.WriteFile may have truncated the file
ExportWrite ==
    /\ pc = "export_write"
    /\ touched' = TRUE
    /\ \/ /\ file' = Marshal(result)
          /\ Finish(0, <<Line("exported", <<>>)>>)
       \/ /\ file' \in {file, NoFile("malformed")}
          /\ Panic
    /\ UNCHANGED <<runs, cluster, argv, listed, ranged, result, doc, decoded, idx,
                   calls, start, prev>>

\* lines 90-94
ImportOpen ==
    /\ pc = "import_open"
    /\ \/ /\ session' = "open"
          /\ pc' = "import_read"
          /\ UNCHANGED <<exit, out>>
       \/ Panic
    /\ UNCHANGED <<runs, cluster, file, argv, touched, listed, ranged, result, doc,
                   decoded, idx, calls, start, prev>>

\* lines 96-104
ImportRead ==
    /\ pc = "import_read"
    /\ touched' = TRUE
    /\ IF ReadFails(file) \/ UnmarshalFails(file)
       THEN Panic /\ UNCHANGED <<doc, decoded>>
       ELSE /\ doc' = Unmarshal(file)
            /\ decoded' = TRUE
            /\ pc' = "import_loop"
            /\ UNCHANGED <<exit, out, session>>
    /\ UNCHANGED <<runs, cluster, file, argv, listed, ranged, result, idx, calls,
                   start, prev>>

\* lines 106-130: one iteration of the loop over file.Topics
ImportCreate ==
    /\ pc = "import_loop"
    /\ idx <= Len(doc)
    /\ LET t == doc[idx]
           detail == MakeDetail(t)
           topics == cluster[argv.broker]
       IN  \E res \in CreateResults(topics, t.Name, detail) :
             /\ calls' = Append(calls, [name |-> t.Name, detail |-> detail,
                                        res |-> res,
                                        existed |-> t.Name \in DOMAIN topics])
             /\ cluster' = IF res = "ok"
                           THEN [cluster EXCEPT ![argv.broker] =
                                    [n \in DOMAIN topics \cup {t.Name} |->
                                        IF n = t.Name THEN detail ELSE topics[n]]]
                           ELSE cluster
             /\ IF res = "ok"
                THEN /\ out' = Append(out, Line("created", t.Name))
                     /\ idx' = idx + 1
                     /\ UNCHANGED <<pc, exit, session>>
                ELSE IF SkipsError(argv.flag, res)
                THEN /\ out' = Append(out, Line("skipped", t.Name))
                     /\ idx' = idx + 1
                     /\ UNCHANGED <<pc, exit, session>>
                ELSE Panic /\ UNCHANGED idx
    /\ UNCHANGED <<runs, file, argv, touched, listed, ranged, result, doc, decoded,
                   start, prev>>

\* lines 132, 181: the loop is over, importTopics returns nil
ImportReturn ==
    /\ pc = "import_loop"
    /\ idx > Len(doc)
    /\ Finish(0, <<Line("imported", <<>>)>>)
    /\ UNCHANGED <<runs, cluster, file, argv, touched, listed, ranged, result, doc,
                   decoded, idx, calls, start, prev>>

Next ==
    \/ \E a \in Argvs : Main(a)
    \/ ExportOpen
    \/ ExportList
    \/ ExportWrite
    \/ ImportOpen
    \/ ImportRead
    \/ ImportCreate
    \/ ImportReturn

Spec == Init /\ [][Next]_vars

----------------------------------------------------------------------------
(* Vocabulary of the properties *)

\* the process is (or was) an import that got as far as importTopics
ImportRan == runs > 0 /\ argv.cmd = "import" /\ argv.broker \in Brokers

\* the process is (or was) an export that got as far as exportTopics
ExportRan == runs > 0 /\ argv.cmd = "export" /\ argv.broker \in Brokers

\* the topics of the cluster the process talks to
Target == cluster[argv.broker]

\* a comes strictly before b in byte-wise lexicographic order
LexBefore(a, b) ==
    \E k \in 0..Len(a) :
        /\ k <= Len(b)
        /\ \A i \in 1..k : a[i] = b[i]
        /\ \/ k = Len(a) /\ k < Len(b)
           \/ k < Len(a) /\ k < Len(b) /\ a[k + 1] < b[k + 1]

\* the name begins with the two characters "__"
HasInternalPrefix(name) == Len(name) >= 2 /\ name[1] = 95 /\ name[2] = 95

\* the keys of the configs of a Topic
ConfigKeys(t) == IF t.Configs.isnil THEN {} ELSE DOMAIN t.Configs.m

\* a topic of a cluster has the partition count, replication factor and
\* configs of a Topic
SameSpec(detail, t) ==
    /\ detail.NumPartitions = t.Partitions
    /\ detail.ReplicationFactor = t.ReplicationFactor
    /\ DOMAIN detail.ConfigEntries = ConfigKeys(t)
    /\ \A k \in ConfigKeys(t) : detail.ConfigEntries[k] = <<t.Configs.m[k]>>

\* the topic named by request i of the process is on the cluster as it was
\* before that request: as it was at the start, or as this run created it
UnchangedBy(i) ==
    LET n == calls[i].name
        creators == {j \in 1..(i - 1) : calls[j].name = n /\ calls[j].res = "ok"}
    IN  /\ n \in DOMAIN Target
        /\ IF creators = {}
           THEN n \in DOMAIN start[argv.broker] /\ Target[n] = start[argv.broker][n]
           ELSE \A j \in creators : Target[n] = calls[j].detail

\* the topic of request i was created by it with the values of doc[i]
CreatedBy(i) ==
    /\ calls[i].res = "ok"
    /\ calls[i].name = doc[i].Name
    /\ calls[i].name \in DOMAIN Target
    /\ Target[calls[i].name] = calls[i].detail
    /\ SameSpec(Target[calls[i].name], doc[i])

\* the snapshot file is a document of the format of the specification:
\* well-formed, every topic with a name and positive numbers
ValidDocument(f) ==
    /\ f.kind = "json"
    /\ \A i \in DOMAIN f.topics :
          /\ f.topics[i].name # <<>>
          /\ f.topics[i].partitions > 0
          /\ f.topics[i].replication_factor > 0

----------------------------------------------------------------------------
(* Properties *)

(* C1: during import, for either value of skipIfExists, a CreateTopic that  *)
(* fails with an error other than "already exists" is the last request of  *)
(* the run: the process has ended with a non-zero status, and the topics   *)
(* created before it are still on the cluster.                             *)
C1_OtherErrorAborts ==
    ImportRan =>
        \A i \in DOMAIN calls :
            calls[i].res = "other" =>
                /\ i = Len(calls)
                /\ pc = "idle"
                /\ exit # 0
                /\ \A j \in 1..(i - 1) :
                      calls[j].res = "ok" =>
                          /\ calls[j].name \in DOMAIN Target
                          /\ Target[calls[j].name] = calls[j].detail

(* C2: when an import has returned success, every topic of the document is *)
(* on the target cluster: created in this run with the document's values,  *)
(* or there before its CreateTopic was issued and skipped.  Stated for     *)
(* valid documents, none of whose requests has to be rejected.             *)
C2_SuccessMeansAllExist ==
    (ImportRan /\ ValidDocument(file) /\ decoded /\ pc = "idle" /\ exit = 0) =>
        /\ Len(calls) = Len(doc)
        /\ \A i \in DOMAIN doc :
              /\ doc[i].Name \in DOMAIN Target
              /\ \/ CreatedBy(i)
                 \/ /\ calls[i].existed
                    /\ calls[i].res # "ok"
                    /\ out[i] = Line("skipped", doc[i].Name)

(* C3: with skipIfExists false, a CreateTopic answered "already exists" is  *)
(* the last request of the run: the process has ended with a non-zero      *)
(* status, no request was issued for a topic listed after it, and the      *)
(* cluster holds what it held at the start plus the topics listed before   *)
(* it, each as this run created it.                                        *)
C3_ConflictAborts ==
    (ImportRan /\ ~argv.flag) =>
        \A i \in DOMAIN calls :
            calls[i].res = "exists" =>
                /\ i = Len(calls)
                /\ pc = "idle"
                /\ exit # 0
                /\ \A j \in 1..i : calls[j].name = doc[j].Name
                /\ \A j \in 1..(i - 1) : CreatedBy(j)
                /\ DOMAIN Target =
                      DOMAIN start[argv.broker] \cup {calls[j].name : j \in 1..(i - 1)}
                /\ \A n \in DOMAIN start[argv.broker] : Target[n] = start[argv.broker][n]

\* a three-topic document whose second topic was on the cluster: the first
\* was created, the third was not
C3_Witness ==
    /\ ImportRan /\ ~argv.flag /\ pc = "idle"
    /\ Len(doc) = 3
    /\ Len(calls) = 2
    /\ calls[1].res = "ok"
    /\ calls[2].res = "exists"
    /\ doc[1].Name \in DOMAIN Target
    /\ doc[3].Name \notin DOMAIN Target

(* C4: with skipIfExists true, an import of a valid document some of whose *)
(* topics are on the cluster, once it has returned success, has issued one *)
(* CreateTopic per topic in document order; every topic that was not there *)
(* is created with the document's values, every topic that was there is    *)
(* left as it was and reported as skipped.                                 *)
C4_SkipAndContinue ==
    (ImportRan /\ ValidDocument(file) /\ argv.flag /\ decoded
       /\ pc = "idle" /\ exit = 0
       /\ \E i \in DOMAIN calls : calls[i].existed) =>
        /\ Len(calls) = Len(doc)
        /\ \A i \in DOMAIN calls :
              /\ calls[i].name = doc[i].Name
              /\ IF calls[i].existed
                 THEN UnchangedBy(i) /\ out[i] = Line("skipped", calls[i].name)
                 ELSE CreatedBy(i)

(* C5: the second of two imports of the same valid snapshot in a row into  *)
(* the same cluster, both with skipIfExists true and both returning        *)
(* success, leaves the cluster as the first left it.                       *)
C5_SecondImportChangesNothing ==
    (ImportRan /\ ValidDocument(file) /\ argv.flag /\ decoded
       /\ pc = "idle" /\ exit = 0
       /\ prev.cmd = "import" /\ prev.broker = argv.broker /\ prev.flag
       /\ prev.decoded /\ prev.exit = 0) =>
        cluster = start

(* C6: an export followed by a successful import of the snapshot into an   *)
(* empty cluster: the cluster holds exactly the exported topics, each with *)
(* the exported partition count, replication factor and configs.           *)
C6_RoundTrip ==
    (ImportRan /\ pc = "idle" /\ exit = 0
       /\ prev.cmd = "export" /\ prev.exit = 0 /\ prev.broker \in Brokers
       /\ prev.broker # argv.broker
       /\ start[argv.broker] = NoTopics) =>
        /\ DOMAIN Target = {result[i].Name : i \in DOMAIN result}
        /\ \A i \in DOMAIN result : SameSpec(Target[result[i].Name], result[i])

(* C7: the topics of an exported snapshot are strictly ascending by name   *)
(* in byte-wise lexicographic order, in the slice and in the file written, *)
(* whatever the order in which the range visited the topics.               *)
C7_ExportSorted ==
    /\ \A i \in 1..(Len(result) - 1) : LexBefore(result[i].Name, result[i + 1].Name)
    /\ (ExportRan /\ pc = "idle" /\ exit = 0) =>
          /\ file.kind = "json"
          /\ Len(file.topics) = Len(result)
          /\ \A i \in 1..(Len(file.topics) - 1) :
                LexBefore(file.topics[i].name, file.topics[i + 1].name)

\* three topics were exported that the range had visited out of order
C7_Witness ==
    /\ ExportRan /\ pc = "idle" /\ exit = 0
    /\ Len(file.topics) >= 3
    /\ \E i \in 1..(Len(ranged) - 1) : LexBefore(ranged[i + 1], ranged[i])

(* C8: an import of a file that is missing, unreadable or not a valid      *)
(* document of the format ends with an error without any request to the    *)
(* cluster, and the cluster is as it was.                                  *)
C8_InvalidFileNoClusterCall ==
    (ImportRan /\ ~ValidDocument(file)) =>
        /\ calls = <<>>
        /\ listed = 0
        /\ cluster = start
        /\ (pc = "idle" /\ touched) => exit # 0

(* C8, amended: an import of a file that is missing, unreadable or that    *)
(* json.Unmarshal rejects ends with an error without any request to the    *)
(* cluster, and the cluster is as it was.                                  *)
C8_UndecodableFileNoClusterCall ==
    (ImportRan /\ file.kind \in {"missing", "unreadable", "malformed"}) =>
        /\ calls = <<>>
        /\ listed = 0
        /\ cluster = start
        /\ ~decoded
        /\ pc \in {"import_open", "import_read", "idle"}
        /\ (pc = "idle" /\ touched) => exit # 0

\* an import has read a file that is no JSON and has ended
C8_Witness ==
    /\ ImportRan /\ file.kind = "malformed"
    /\ pc = "idle" /\ touched /\ session = "closed"
    /\ exit # 0
    /\ start[argv.broker] # NoTopics

(* C9: a process whose first argument is neither export nor import prints  *)
(* the help text and ends with a non-zero status, without a session and    *)
(* without touching the file.                                              *)
C9_UnknownCommandFails ==
    (runs > 0 /\ argv.cmd \notin {"", "export", "import"} /\ pc = "idle") =>
        /\ out = <<Line("help", <<>>)>>
        /\ session = "none"
        /\ ~touched
        /\ exit # 0

(* C10: a topic the cluster lists is in the exported snapshot exactly when *)
(* excludeInternal is false or its name does not begin with "__"; the      *)
(* snapshot names no other topic.                                          *)
C10_InternalFilter ==
    (ExportRan /\ (pc = "export_write" \/ (pc = "idle" /\ exit = 0))) =>
        /\ \A n \in DOMAIN Target :
              (\E i \in DOMAIN result : result[i].Name = n)
                  <=> ~(argv.flag /\ HasInternalPrefix(n))
        /\ \A i \in DOMAIN result : result[i].Name \in DOMAIN Target
        /\ pc = "idle" =>
              /\ Len(file.topics) = Len(result)
              /\ \A i \in DOMAIN result : file.topics[i].name = result[i].Name

\* an export with excludeInternal of a cluster holding "_", "__" and "__a"
C10_Witness ==
    /\ ExportRan /\ argv.flag /\ pc = "idle" /\ exit = 0
    /\ DOMAIN Target = {<<95>>, <<95, 95>>, <<95, 95, 97>>}
    /\ Len(file.topics) = 1

====
